---- MODULE Spec2Model ----
(***************************************************************************)
(* Model of src/streamlit_compound_calculator.py: a Streamlit script that  *)
(* is executed top to bottom on every interaction.  One run of the script  *)
(* is: read cenarios.json, read the sidebar inputs, handle the button that *)
(* was clicked (Salvar / Carregar / Excluir / none), compute the monthly   *)
(* projection in the for loop, build the table and the summary, and run    *)
(* the reverse calculator.  The only state that survives a run is the file *)
(* cenarios.json.                                                          *)
(*                                                                         *)
(* Numbers: the script computes in floating point.  The model computes the *)
(* same expressions in exact arithmetic, on inputs for which every         *)
(* operation of the script is exact: whole amounts of money, and annual    *)
(* rates whose factor 1 + rate/100 is a perfect 12th power, so that the    *)
(* monthly rate (1 + rate/100) ** (1/12) - 1 is a whole number.  A         *)
(* quotient that need not be whole (PMT) is kept as a fraction.            *)
(*                                                                         *)
(* Strings are sequences of one-character strings, so that strip() is      *)
(* computed, not assumed.  A dict (and the JSON object it is dumped to) is *)
(* a sequence of [nome, dados] entries in insertion order.                 *)
(***************************************************************************)
EXTENDS Integers, Sequences, FiniteSets, TLC

\* ------------------------------------------------------------------ bounds
\* Largest initial capital the user enters.
MaxValor == 1
\* Largest monthly contribution the user enters.
MaxAporte == 1
\* Largest horizon (years) the user selects on the slider.
MaxAnos == 1
\* Largest target the user types besides the final balance of the run.
MaxMeta == 1

\* ------------------------------------------------------- program constants
\* number_input(..., 0.0, ...): min_value of the money and rate inputs.
MinNumero == 0
\* slider("Horizonte (anos)", 1, 50, 10)
SliderMin == 1
SliderMax == 50
SliderDefault == 10
\* meses = anos * 12, and the exponent 1/12 of the rate conversion.
MesesPorAno == 12

VARIABLES
    arquivo,        \* content of the file cenarios.json, Ausente while it does not exist
    cenarios,       \* the module-level dict `cenarios` of the current run
    historico,      \* history variable, read by no action: per name, the widget
                    \* values <<valor_inicial, aporte_mensal, taxa_anual, anos,
                    \* cdi_medio>> of the most recent save since its last delete
    botao,          \* the button that triggered this run
    nome_cenario,   \* text_input "Nome do cenario"
    opcao,          \* selectbox "Selecione um cenario existente"
    valor_inicial, aporte_mensal, taxa_anual, anos, cdi_medio,
    meses, taxa_mensal, cdi_mensal,
    saldos, aportes, ganhos, cdi_ref, saldo, saldo_cdi, m,
    df,             \* the DataFrame built after the loop
    meta_final, PMT, saida,
    pc, erro

vars == <<arquivo, cenarios, historico, botao, nome_cenario, opcao,
          valor_inicial, aporte_mensal, taxa_anual, anos, cdi_medio,
          meses, taxa_mensal, cdi_mensal,
          saldos, aportes, ganhos, cdi_ref, saldo, saldo_cdi, m,
          df, meta_final, PMT, saida, pc, erro>>

entradas == <<valor_inicial, aporte_mensal, taxa_anual, anos, cdi_medio>>
calculo == <<meses, taxa_mensal, cdi_mensal, saldos, aportes, ganhos, cdi_ref,
             saldo, saldo_cdi, m>>
reversa == <<meta_final, PMT, saida>>

Nenhum == "nenhum"
\* An absent value (None, no file, nothing shown) is <<>>, a present one <<x>>.
Ausente == <<>>
Algum(x) == <<x>>
ValorDe(o) == o[1]

\* ------------------------------------------------------------ pure helpers
Min(a, b) == IF a < b THEN a ELSE b

RECURSIVE Pow(_, _)
\* Python's b ** e for a whole exponent e >= 0.
Pow(b, e) == IF e <= 0 THEN 1 ELSE b * Pow(b, e - 1)

\* x ** (1/12): the real 12th root, on the perfect 12th powers.
RaizDoze(x) == CHOOSE r \in 0..Min(x, 2) : Pow(r, MesesPorAno) = x

\* Variant: the monthly factor taken for the monthly rate.
TaxaMensalSemMenosUm(taxa) == RaizDoze(1 + (taxa \div 100))

\* (1 + taxa/100) ** (1/12) - 1, for a rate that is a multiple of 100.
TaxaMensal(taxa) == RaizDoze(1 + (taxa \div 100)) - 1

RECURSIVE LStrip(_)
LStrip(s) == IF s = <<>> THEN s
             ELSE IF Head(s) = " " THEN LStrip(Tail(s)) ELSE s

RECURSIVE RStrip(_)
RStrip(s) == IF s = <<>> THEN s
             ELSE IF s[Len(s)] = " " THEN RStrip(SubSeq(s, 1, Len(s) - 1)) ELSE s

\* str.strip()
Strip(s) == RStrip(LStrip(s))

\* ------------------------------------------------------------------- dicts
DictHas(d, k) == \E j \in 1..Len(d) : d[j].nome = k
DictGet(d, k) == d[CHOOSE j \in 1..Len(d) : d[j].nome = k].dados
\* list(d.keys())
DictKeys(d) == [j \in 1..Len(d) |-> d[j].nome]
\* d[k] = v : overwrite in place, or append a new key.
DictSet(d, k, v) ==
    IF DictHas(d, k)
    THEN [j \in 1..Len(d) |-> IF d[j].nome = k THEN [nome |-> k, dados |-> v] ELSE d[j]]
    ELSE Append(d, [nome |-> k, dados |-> v])
\* del d[k]
DictDel(d, k) == SelectSeq(d, LAMBDA e : e.nome # k)

\* [""] + list(cenarios.keys()): what the selectbox offers.
Opcoes(d) == <<(<<>>)>> \o DictKeys(d)
\* `op` is one of the offered options.
Oferecida(d, op) == \E j \in 1..Len(Opcoes(d)) : Opcoes(d)[j] = op

\* ------------------------------------------------------------------ inputs
\* What the user can type as a scenario name: empty, blank, or a real name.
Nomes == { <<>>, <<" ">>, <<"a">> }
\* Values the number_input widgets return (never below their min_value).
Valores == MinNumero..MaxValor
Aportes == MinNumero..MaxAporte
\* Annual rates in percent: 0 %, and 409500 % (monthly factor 2).
Taxas == { 0, 409500 }
\* Values the slider returns.
Anos == SliderMin..Min(MaxAnos, SliderMax)

\* Variant: the two amounts stored under each other's key.
RegistroTrocado(vi, ap, ta, an, cd) ==
    [valor_inicial |-> ap, aporte_mensal |-> vi, taxa_anual |-> ta,
     anos |-> an, cdi_medio |-> cd]

\* The dict literal of lines 52-58.
Registro(vi, ap, ta, an, cd) ==
    [valor_inicial |-> vi, aporte_mensal |-> ap, taxa_anual |-> ta,
     anos |-> an, cdi_medio |-> cd]

\* ------------------------------------------------------------ persistence
\* The JSON object json.dump writes for one scenario: its members in the
\* order of the dict literal.
ObjetoJson(r) == [j \in 1..5 |->
    <<(<<"valor_inicial", "aporte_mensal", "taxa_anual", "anos", "cdi_medio">>)[j],
      r[(<<"valor_inicial", "aporte_mensal", "taxa_anual", "anos", "cdi_medio">>)[j]]>>]

\* json.dump(cenarios, f): one member per key, in insertion order.
JsonDump(d) == [j \in 1..Len(d) |-> <<d[j].nome, ObjetoJson(d[j].dados)>>]

\* The dict json.load builds from the members of one JSON object.
DictDeMembros(ms) ==
    [k \in {ms[j][1] : j \in 1..Len(ms)} |->
        ms[CHOOSE j \in 1..Len(ms) :
              /\ ms[j][1] = k
              /\ \A j2 \in 1..Len(ms) : ms[j2][1] = k => j2 <= j][2]]

\* json.load(f)
JsonLoad(txt) == [j \in 1..Len(txt) |-> [nome |-> txt[j][1], dados |-> DictDeMembros(txt[j][2])]]

\* carregar_cenarios(): {} when the file does not exist.
carregar_cenarios(f) == IF f = Ausente THEN <<>> ELSE JsonLoad(ValorDe(f))

\* salvar_cenarios(cenarios): the new content of the file.
salvar_cenarios(d) == Algum(JsonDump(d))

\* dados.get("cdi_medio", 0.0)
GetCdi(dados) == IF "cdi_medio" \in DOMAIN dados THEN dados.cdi_medio ELSE 0

\* ---------------------------------------------------------------- the run
\* History only: a name that is empty or made of spaces alone.
EmBranco(nome) == \A j \in 1..Len(nome) : nome[j] = " "

\* A new run starts when the session waits for the next interaction.
Ocioso == pc = "ocioso"

\* Lines 88-94, at the end of the sidebar section: the derived quantities and
\* the empty series; the for loop is next.
PreparaCalculo(vi, ap, ta, an, cd) ==
    /\ valor_inicial' = vi
    /\ aporte_mensal' = ap
    /\ taxa_anual' = ta
    /\ anos' = an
    /\ cdi_medio' = cd
    /\ meses' = an * MesesPorAno
    /\ taxa_mensal' = TaxaMensal(ta)
    /\ cdi_mensal' = TaxaMensal(cd)
    /\ saldos' = <<>>
    /\ aportes' = <<>>
    /\ ganhos' = <<>>
    /\ cdi_ref' = <<>>
    /\ saldo' = vi
    /\ saldo_cdi' = vi
    /\ m' = 0
    /\ df' = Ausente
    /\ meta_final' = 0
    /\ PMT' = Ausente
    /\ saida' = Ausente
    /\ erro' = Nenhum
    /\ pc' = "loop"

\* A run in which no button was clicked (a widget changed).
Rerun(vi, ap, ta, an, cd) ==
    /\ Ocioso
    /\ botao' = Nenhum
    /\ opcao' = <<>>
    /\ cenarios' = carregar_cenarios(arquivo)
    /\ UNCHANGED <<arquivo, historico, nome_cenario>>
    /\ PreparaCalculo(vi, ap, ta, an, cd)

\* The run triggered by "Salvar cenario".
Salvar(nome, vi, ap, ta, an, cd) ==
    /\ Ocioso
    /\ botao' = "salvar"
    /\ nome_cenario' = nome
    /\ opcao' = <<>>
    /\ IF Strip(nome) # <<>>
       THEN /\ cenarios' = DictSet(carregar_cenarios(arquivo), nome, Registro(vi, ap, ta, an, cd))
            /\ arquivo' = salvar_cenarios(cenarios')
       ELSE /\ cenarios' = carregar_cenarios(arquivo)
            /\ UNCHANGED arquivo
    /\ historico' = IF EmBranco(nome) THEN historico
                    ELSE [historico EXCEPT ![nome] = Algum(<<vi, ap, ta, an, cd>>)]
    /\ PreparaCalculo(vi, ap, ta, an, cd)

\* The run triggered by "Carregar", with `op` selected in the selectbox.
Carregar(op) ==
    /\ Ocioso
    /\ Oferecida(carregar_cenarios(arquivo), op)
    /\ op # <<>>
    /\ botao' = "carregar"
    /\ opcao' = op
    /\ cenarios' = carregar_cenarios(arquivo)
    /\ UNCHANGED <<arquivo, historico, nome_cenario>>
    /\ LET dados == DictGet(cenarios', op)
       IN PreparaCalculo(dados.valor_inicial, dados.aporte_mensal, dados.taxa_anual,
                         dados.anos, GetCdi(dados))

\* The run triggered by "Excluir", with `op` selected in the selectbox.
Excluir(op, vi, ap, ta, an, cd) ==
    /\ Ocioso
    /\ Oferecida(carregar_cenarios(arquivo), op)
    /\ op # <<>>
    /\ botao' = "excluir"
    /\ opcao' = op
    /\ cenarios' = DictDel(carregar_cenarios(arquivo), op)
    /\ arquivo' = salvar_cenarios(cenarios')
    /\ historico' = [historico EXCEPT ![op] = Ausente]
    /\ UNCHANGED nome_cenario
    /\ PreparaCalculo(vi, ap, ta, an, cd)

\* Variant: range(meses), one point short.
NoLacoCurto(mm, n) == mm < n

\* `m in range(meses+1)`: the loop has an iteration left for m.
NoLaco(mm, n) == mm < n + 1

\* valor_inicial + aporte_mensal*m
TotalAportado(vi, ap, mm) == vi + ap * mm

\* Variant: the gain measured against the contributions alone.
GanhoSemCapital(s, vi, ap, mm) == s - ap * mm

\* saldo - (valor_inicial + aporte_mensal*m)
Ganho(s, vi, ap, mm) == s - (vi + ap * mm)

\* Variant: the contribution is applied before the growth.
ProximoSaldoAntecipado(s, taxa, ap) == (s + ap) * (1 + taxa)

\* Variant: the contribution is withdrawn instead of added.
ProximoSaldoRetirada(s, taxa, ap) == s * (1 + taxa) - ap

\* saldo*(1+taxa) + aporte_mensal
ProximoSaldo(s, taxa, ap) == s * (1 + taxa) + ap

\* One iteration of `for m in range(meses+1)`.
LoopStep ==
    /\ pc = "loop"
    /\ NoLaco(m, meses)
    /\ saldos' = Append(saldos, saldo)
    /\ aportes' = Append(aportes, TotalAportado(valor_inicial, aporte_mensal, m))
    /\ ganhos' = Append(ganhos, Ganho(saldo, valor_inicial, aporte_mensal, m))
    /\ cdi_ref' = Append(cdi_ref, saldo_cdi)
    /\ IF m < meses
       THEN /\ saldo' = ProximoSaldo(saldo, taxa_mensal, aporte_mensal)
            /\ saldo_cdi' = ProximoSaldo(saldo_cdi, cdi_mensal, aporte_mensal)
       ELSE UNCHANGED <<saldo, saldo_cdi>>
    /\ m' = m + 1
    /\ UNCHANGED <<arquivo, cenarios, historico, botao, nome_cenario, opcao, entradas,
                   meses, taxa_mensal, cdi_mensal, df, reversa, pc, erro>>

\* list(range(n))
Range(n) == [j \in 1..n |-> j - 1]

\* After the loop: the DataFrame and the summary metrics, which read
\* saldos[-1], aportes[-1] and ganhos[-1].
Resumo ==
    /\ pc = "loop"
    /\ ~NoLaco(m, meses)
    /\ df' = Algum([Mes |-> Range(meses + 1), Saldo |-> saldos, Aportado |-> aportes,
                     Ganhos |-> ganhos, SaldoCDI |-> cdi_ref])
    /\ IF saldos = <<>>
       THEN pc' = "fault" /\ erro' = "IndexError"
       ELSE pc' = "reversa" /\ erro' = erro
    /\ UNCHANGED <<arquivo, cenarios, historico, botao, nome_cenario, opcao, entradas,
                   calculo, reversa>>

\* ------------------------------------------------------ reverse calculator
\* A quotient a / b of the script, kept exact.
Frac(a, b) == [num |-> a, den |-> b]
FracNeg(f) == (f.num < 0 /\ f.den > 0) \/ (f.num > 0 /\ f.den < 0)
FracIgual(f, k) == f.num = k * f.den

\* Variant: the annuity branch also taken at rate 0.
RamoNaoNegativo(i) == i >= 0

\* `if i > 0`
RamoPositivo(i) == i > 0

\* Variant: the growth of the initial capital left out of the annuity branch,
\* and the zero-rate branch spread over one month more.
CalculaPMTSemCrescimento(FV, P, i, n) ==
    IF RamoPositivo(i)
    THEN LET fator == (Pow(1 + i, n) - 1) \div i
         IN IF fator = 0 THEN Ausente ELSE Algum(Frac(FV - P, fator))
    ELSE Algum(Frac(FV - P, n + 1))

\* Lines 153-156: the PMT, or Ausente when a zero divisor raises ZeroDivisionError.
CalculaPMT(FV, P, i, n) ==
    IF RamoPositivo(i)
    THEN IF i = 0
         THEN Ausente
         ELSE LET fator == (Pow(1 + i, n) - 1) \div i
              IN IF fator = 0
                 THEN Ausente
                 ELSE Algum(Frac(FV - P * Pow(1 + i, n), fator))
    ELSE IF n = 0
         THEN Ausente
         ELSE Algum(Frac(FV - P, n))

\* f"{x:,.2f}" of a quotient x >= 0: the whole part and the two decimals,
\* rounded half to even.
DuasCasas(f) ==
    LET inteiro == f.num \div f.den
        resto   == (f.num % f.den) * 100
        c       == resto \div f.den
        sobra   == resto % f.den
        cima    == (2 * sobra > f.den) \/ (2 * sobra = f.den /\ c % 2 = 1)
        c2      == c + (IF cima THEN 1 ELSE 0)
    IN IF c2 = 100 THEN [reais |-> inteiro + 1, centavos |-> 0]
                   ELSE [reais |-> inteiro, centavos |-> c2]

\* Variant: `if PMT <= 0`.
MensagemLimiteErrado(pmt, meta) ==
    IF FracNeg(pmt) \/ pmt.num = 0
    THEN [tipo |-> "meta_ja_atingida"]
    ELSE [tipo |-> "aporte_necessario", valor |-> DuasCasas(pmt),
          meta |-> DuasCasas(Frac(meta, 1))]

\* Lines 157-166: st.error when the PMT is negative, else the message that
\* shows the PMT and the target.
Mensagem(pmt, meta) ==
    IF FracNeg(pmt)
    THEN [tipo |-> "meta_ja_atingida"]
    ELSE [tipo |-> "aporte_necessario", valor |-> DuasCasas(pmt),
          meta |-> DuasCasas(Frac(meta, 1))]

\* Targets the user types into "Meta financeira": a small amount, or the
\* final balance the summary shows.  The widget returns nothing below 0.0.
Metas == { x \in (0..MaxMeta) \cup (IF saldos = <<>> THEN {} ELSE {saldos[Len(saldos)]}) :
              x >= MinNumero }

\* The reverse calculator, lines 145-166, which ends the run.
Reversa(meta) ==
    /\ pc = "reversa"
    /\ meta_final' = meta
    /\ IF meta > 0
       THEN LET r == CalculaPMT(meta, valor_inicial, taxa_mensal, meses)
            IN IF r = Ausente
               THEN /\ pc' = "fault"
                    /\ erro' = "ZeroDivisionError"
                    /\ UNCHANGED <<PMT, saida>>
               ELSE /\ PMT' = r
                    /\ saida' = Algum(Mensagem(ValorDe(r), meta))
                    /\ pc' = "done"
                    /\ erro' = erro
       ELSE /\ pc' = "done"
            /\ UNCHANGED <<PMT, saida, erro>>
    /\ UNCHANGED <<arquivo, cenarios, historico, botao, nome_cenario, opcao, entradas,
                   calculo, df>>

\* The script has ended, at its last line or by an exception that Streamlit
\* reports: its namespace is discarded and the session waits for the next
\* interaction.  Only cenarios.json is kept.
FimDoScript ==
    /\ pc \in {"done", "fault"}
    /\ pc' = "ocioso"
    /\ cenarios' = <<>>
    /\ botao' = Nenhum
    /\ opcao' = <<>>
    /\ valor_inicial' = 0
    /\ aporte_mensal' = 0
    /\ taxa_anual' = 0
    /\ anos' = 0
    /\ cdi_medio' = 0
    /\ meses' = 0
    /\ taxa_mensal' = 0
    /\ cdi_mensal' = 0
    /\ saldos' = <<>>
    /\ aportes' = <<>>
    /\ ganhos' = <<>>
    /\ cdi_ref' = <<>>
    /\ saldo' = 0
    /\ saldo_cdi' = 0
    /\ m' = 0
    /\ df' = Ausente
    /\ meta_final' = 0
    /\ PMT' = Ausente
    /\ saida' = Ausente
    /\ erro' = Nenhum
    /\ UNCHANGED <<arquivo, historico, nome_cenario>>

\* ----------------------------------------------------------- specification
\* The first run of the script: every widget at its default, no button
\* clicked, the for loop about to start.
PrimeiroRun ==
    /\ historico = [n \in Nomes |-> Ausente]
    /\ botao = Nenhum
    /\ nome_cenario = <<>>
    /\ opcao = <<>>
    /\ valor_inicial = MinNumero
    /\ aporte_mensal = MinNumero
    /\ taxa_anual = MinNumero
    /\ anos = SliderDefault
    /\ cdi_medio = MinNumero
    /\ meses = SliderDefault * MesesPorAno
    /\ taxa_mensal = TaxaMensal(MinNumero)
    /\ cdi_mensal = TaxaMensal(MinNumero)
    /\ saldos = <<>>
    /\ aportes = <<>>
    /\ ganhos = <<>>
    /\ cdi_ref = <<>>
    /\ saldo = MinNumero
    /\ saldo_cdi = MinNumero
    /\ m = 0
    /\ df = Ausente
    /\ meta_final = 0
    /\ PMT = Ausente
    /\ saida = Ausente
    /\ erro = Nenhum
    /\ pc = "loop"

\* The program started where cenarios.json does not exist yet.
Init ==
    /\ arquivo = Ausente
    /\ cenarios = carregar_cenarios(arquivo)
    /\ PrimeiroRun

Next ==
    \/ \E vi \in Valores, ap \in Aportes, ta \in Taxas, an \in Anos, cd \in Taxas :
          Rerun(vi, ap, ta, an, cd)
    \/ \E nome \in Nomes, vi \in Valores, ap \in Aportes, ta \in Taxas, an \in Anos, cd \in Taxas :
          Salvar(nome, vi, ap, ta, an, cd)
    \/ \E op \in Nomes : Carregar(op)
    \/ \E op \in Nomes, vi \in Valores, ap \in Aportes, ta \in Taxas, an \in Anos, cd \in Taxas :
          Excluir(op, vi, ap, ta, an, cd)
    \/ LoopStep
    \/ Resumo
    \/ \E meta \in Metas : Reversa(meta)
    \/ FimDoScript

Spec == Init /\ [][Next]_vars

\* A cenarios.json that this script did not write: one scenario "a" whose
\* members were edited by hand, or written without "cdi_medio".
RegistrosExternos ==
    { Registro(1, 1, 0, 1, 0), Registro(0 - 1, 0, 409500, 1, 0), Registro(1, 0 - 1, 0, 1, 0),
      Registro(1, 0, 0 - 100, 1, 0), Registro(1, 0, 0, 0, 0), Registro(1, 0, 0, 0 - 1, 0) }
ArquivosExternos ==
    { Algum(<< <<(<<"a">>), ObjetoJson(r)>> >>) : r \in RegistrosExternos }
    \cup { Algum(<< <<(<<"a">>), SubSeq(ObjetoJson(Registro(1, 1, 0, 1, 0)), 1, 4)>> >>) }

\* The program started beside a cenarios.json it did not write.
InitExterno ==
    /\ arquivo \in ArquivosExternos
    /\ cenarios = carregar_cenarios(arquivo)
    /\ PrimeiroRun

SpecExterno == InitExterno /\ [][Next]_vars

\* ------------------------------------------------------------------ claims
\* The run has produced the whole series: the table is built.
SerieCompleta == pc \in {"reversa", "done"} /\ df # Ausente
Tabela == ValorDe(df)

\* C1: at every point of the series, in the loop's lists and in the table,
\* gain = balance - cumulative contribution, and the cumulative contribution
\* of month k is valor_inicial + aporte_mensal * k.
C1_GanhoEAportado ==
    /\ Len(aportes) = Len(saldos) /\ Len(ganhos) = Len(saldos)
    /\ \A k \in 1..Len(saldos) :
          /\ ganhos[k] = saldos[k] - aportes[k]
          /\ aportes[k] = valor_inicial + aporte_mensal * (k - 1)
    /\ SerieCompleta =>
          \A k \in 1..Len(Tabela.Mes) :
             /\ Tabela.Ganhos[k] = Tabela.Saldo[k] - Tabela.Aportado[k]
             /\ Tabela.Aportado[k] = valor_inicial + aporte_mensal * Tabela.Mes[k]

\* A finished series with a capital, contributions and a non-zero gain.
C1_Witness ==
    /\ SerieCompleta
    /\ valor_inicial > 0 /\ aporte_mensal > 0
    /\ ganhos[Len(ganhos)] > 0

\* The parameters of the run are valid ScenarioParameters.
ParametrosValidos ==
    /\ valor_inicial >= 0 /\ aporte_mensal >= 0
    /\ taxa_anual >= 0 /\ cdi_medio >= 0
    /\ meses > 0

\* C2: for valid parameters the table has exactly meses+1 points, for the
\* months 0, 1, ..., meses in this order, and its first point has balance,
\* benchmark balance and cumulative contribution equal to valor_inicial.
C2_SerieCompleta ==
    (SerieCompleta /\ ParametrosValidos) =>
        /\ Len(Tabela.Mes) = meses + 1
        /\ Len(Tabela.Saldo) = meses + 1
        /\ Len(Tabela.Aportado) = meses + 1
        /\ Len(Tabela.Ganhos) = meses + 1
        /\ Len(Tabela.SaldoCDI) = meses + 1
        /\ \A k \in 1..(meses + 1) : Tabela.Mes[k] = k - 1
        /\ Tabela.Saldo[1] = valor_inicial
        /\ Tabela.SaldoCDI[1] = valor_inicial
        /\ Tabela.Aportado[1] = valor_inicial

\* A finished table over one year, with a capital that grows.
C2_Witness ==
    /\ SerieCompleta /\ ParametrosValidos
    /\ meses = MesesPorAno
    /\ valor_inicial > 0 /\ aporte_mensal > 0 /\ taxa_mensal > 0

\* C3: each balance after the first is the previous one times (1 + monthly
\* rate) plus the contribution, the benchmark balance likewise with the
\* benchmark monthly rate, and with equal annual rates the two series agree.
C3_Recorrencia ==
    /\ Len(cdi_ref) = Len(saldos)
    /\ \A k \in 1..(Len(saldos) - 1) :
          /\ saldos[k + 1] = saldos[k] * (1 + taxa_mensal) + aporte_mensal
          /\ cdi_ref[k + 1] = cdi_ref[k] * (1 + cdi_mensal) + aporte_mensal
    /\ (pc # "ocioso" /\ cdi_medio = taxa_anual) => cdi_ref = saldos

\* A finished series in which the two rates differ and both series moved.
C3_Witness ==
    /\ SerieCompleta
    /\ taxa_mensal > 0 /\ cdi_mensal = 0 /\ aporte_mensal > 0
    /\ saldos[Len(saldos)] > cdi_ref[Len(cdi_ref)]
    /\ cdi_ref[Len(cdi_ref)] > valor_inicial

\* C8: with a non-negative contribution and a non-negative annual rate the
\* balance never decreases from one month to the next.
C8_Monotonia ==
    (aporte_mensal >= 0 /\ taxa_anual >= 0) =>
        \A k \in 1..(Len(saldos) - 1) : saldos[k + 1] >= saldos[k]

\* A finished series that grew by contributions and by interest.
C8_Witness ==
    /\ SerieCompleta
    /\ aporte_mensal > 0 /\ taxa_anual > 0 /\ valor_inicial > 0
    /\ saldos[Len(saldos)] > saldos[1]

\* C9: with annual rate 0 the monthly rate is 0, every balance is
\* valor_inicial + aporte_mensal * month, and every gain is 0.
C9_TaxaZero ==
    (pc # "ocioso" /\ taxa_anual = 0) =>
        /\ taxa_mensal = 0
        /\ \A k \in 1..Len(saldos) :
              /\ saldos[k] = valor_inicial + aporte_mensal * (k - 1)
              /\ ganhos[k] = 0

\* A finished zero-rate series with a capital and contributions.
C9_Witness ==
    /\ SerieCompleta
    /\ taxa_anual = 0 /\ valor_inicial > 0 /\ aporte_mensal > 0
    /\ Len(saldos) = meses + 1

\* The reverse calculator has run on the final balance of this run.
MetaEhSaldoFinal ==
    /\ pc \in {"done", "fault"}
    /\ saldos # <<>>
    /\ meta_final = saldos[Len(saldos)]

\* C4 as stated: for a monthly rate > 0 or = 0, the reverse calculator fed
\* with the final balance of the run returns a PMT equal to aporte_mensal.
C4_IdaEVolta_Original ==
    (MetaEhSaldoFinal /\ taxa_mensal >= 0) =>
        (PMT # Ausente /\ FracIgual(ValorDe(PMT), aporte_mensal))

\* C4 amended: the same, for a final balance > 0 (a target of 0 asks for no
\* computation).
C4_IdaEVolta ==
    (MetaEhSaldoFinal /\ taxa_mensal >= 0 /\ saldos[Len(saldos)] > 0) =>
        (PMT # Ausente /\ FracIgual(ValorDe(PMT), aporte_mensal))

\* The round trip in the annuity branch, with a capital and a contribution.
C4_Witness ==
    /\ MetaEhSaldoFinal /\ pc = "done"
    /\ taxa_mensal > 0 /\ valor_inicial > 0 /\ aporte_mensal > 0
    /\ PMT # Ausente /\ FracIgual(ValorDe(PMT), aporte_mensal)

\* C5: a run whose parameters are invalid computes nothing (no point of the
\* series, no table, no PMT) and ends with an InvalidParameter error.
C5_EntradaInvalidaRejeitada ==
    (pc # "ocioso" /\ ~ParametrosValidos) =>
        /\ saldos = <<>> /\ df = Ausente /\ PMT = Ausente
        /\ pc \in {"done", "fault"} => erro = "InvalidParameter"

\* C6: when the computed PMT is negative the outcome is "target already
\* reached" and carries no amount; otherwise the outcome is the required
\* contribution, which is the computed PMT to two decimals.
C6_ResultadoReverso ==
    (pc = "done" /\ PMT # Ausente) =>
        /\ saida # Ausente
        /\ FracNeg(ValorDe(PMT)) =>
              /\ ValorDe(saida).tipo = "meta_ja_atingida"
              /\ DOMAIN ValorDe(saida) = {"tipo"}
        /\ ~FracNeg(ValorDe(PMT)) =>
              /\ ValorDe(saida).tipo = "aporte_necessario"
              /\ ValorDe(saida).valor = DuasCasas(ValorDe(PMT))

\* A negative PMT: the capital alone outgrows the target.
C6_Witness ==
    /\ pc = "done" /\ PMT # Ausente
    /\ FracNeg(ValorDe(PMT))
    /\ valor_inicial > 0 /\ taxa_mensal > 0
    /\ ValorDe(saida).tipo = "meta_ja_atingida"

C10_CenariosSalvos ==
    /\ \A n \in Nomes :
          /\ DictHas(carregar_cenarios(arquivo), n) <=> historico[n] # Ausente
          /\ historico[n] # Ausente =>
                LET d == DictGet(carregar_cenarios(arquivo), n)
                    h == ValorDe(historico[n])
                IN /\ DOMAIN d = {"valor_inicial", "aporte_mensal", "taxa_anual",
                                  "anos", "cdi_medio"}
                   /\ <<d.valor_inicial, d.aporte_mensal, d.taxa_anual, d.anos,
                        d.cdi_medio>> = h
    /\ \A j \in 1..Len(carregar_cenarios(arquivo)) :
          ~EmBranco(carregar_cenarios(arquivo)[j].nome)
    /\ (botao = "carregar" /\ pc # "ocioso") =>
          /\ historico[opcao] # Ausente
          /\ LET h == ValorDe(historico[opcao])
             IN /\ entradas = h
                /\ meses = h[4] * MesesPorAno
                /\ \A k \in 1..Len(saldos) :
                      aportes[k] = h[1] + h[2] * (k - 1)
                /\ saldos # <<>> => (saldos[1] = h[1] /\ cdi_ref[1] = h[1])

\* A run that loaded a scenario saved with a capital and an interest rate,
\* after a save under a blank name was attempted.
C10_Witness ==
    /\ pc = "done" /\ botao = "carregar"
    /\ historico[opcao] # Ausente
    /\ ValorDe(historico[opcao])[1] > 0 /\ ValorDe(historico[opcao])[3] > 0
    /\ saldos[1] = ValorDe(historico[opcao])[1]
    /\ nome_cenario = <<" ">>

====
